---- MODULE Spec2Model ----
(***************************************************************************)
(* A model of sublime/cache_manager.py: the download manager               *)
(* (return_cached_or_download), the cache store with its snapshot file     *)
(* (load_cache_info / save_cache_info) and the migration of cover_art/,    *)
(* the entity accessors built on CacheManager.Result, get_album_list,      *)
(* search with SearchResult, and Result.from_server.                       *)
(***************************************************************************)
EXTENDS Integers, Sequences, FiniteSets, TLC

(***************************************************************************)
(* Bounds of the model.                                                    *)
(***************************************************************************)
\* number of return_cached_or_download requests
NumRequests == 3
\* number of distinct cache-relative paths
NumPaths == 2

\* number of entity accessor calls (get_artists, get_album, ...)
NumCalls == 2
\* number of distinct entity ids
NumIds == 2
\* number of CacheManager.reset calls, the first included
MaxInstances == 2

Requests == 1..NumRequests
Paths == 1..NumPaths
Calls == 1..NumCalls
Ids == 1..NumIds

\* number of Results made by Result.from_server
NumResults == 2
ResultIds == 1..NumResults

\* app_config.concurrent_download_limit, handed to threading.Semaphore
concurrent_download_limit == 1

VARIABLES
    \* ---- download manager ----
    path_exists,        \* abs_path.exists(), per path
    staged,             \* download_path.exists(), per path (the staging file)
    current_downloads,  \* self.current_downloads
    download_limiter_semaphore, \* the semaphore's counter
    dl,                 \* per request: the Result and its worker's position
    fetch_count,        \* per path: how often download_fn was invoked
    \* ---- cache store ----
    cache,              \* __CacheManagerInternal.cache
    cache_lock,         \* cache_lock: 0 when free, else the call holding it
    cache_meta_file,    \* the snapshot file .cache_meta
    call,               \* per accessor call: the Result and its worker
    server_calls,       \* how often self.server was contacted
    instance,           \* CacheManager._instance: how many were constructed
    search,             \* the search call, its cancelled flag and callbacks
    \* ---- the rest of the module ----
    cover_art,          \* the files of the cache's cover_art/ directory
    ranking,            \* a SearchResult view: the candidates and the result
    album_list,         \* the get_album_list call: its loop and the pages
    results,            \* Results made by Result.from_data and from_server
    \* ---- the executor ----
    should_exit,        \* CacheManager.should_exit
    executor,           \* CacheManager.executor: shut down or not, its queue
    shutdown_call,      \* the call of CacheManager.shutdown: how far it is
    artwork             \* per get_artist_artwork call: its tasks

dlVars == <<path_exists, staged, current_downloads, download_limiter_semaphore,
            dl, fetch_count>>

storeVars == <<cache, cache_lock, cache_meta_file, call, server_calls, instance,
               search>>

poolVars == <<should_exit, executor, shutdown_call, artwork>>

moreVars == <<cover_art, ranking, album_list, results, poolVars>>

vars == <<dlVars, storeVars, moreVars>>

(***************************************************************************)
(* Values of a Result of return_cached_or_download.  A path is the result  *)
(* str(abs_path); 0 is "no value yet", -1 the empty string of              *)
(* allow_download = False, -2 a failure raised by result().                *)
(***************************************************************************)
Unresolved == 0
EmptyString == 0 - 1
Raised == 0 - 2

\* positions of a request: not made, answered without a future, the future
\* queued, the worker in do_download, the future finished, its callbacks run
IdleDl == [pc |-> "idle", path |-> 1, force |-> FALSE, fetch |-> "none",
           result |-> Unresolved]


(***************************************************************************)
(* Entities.  An APIObject is a record of its fields; None is 0 for a      *)
(* number and the empty list for a list.                                   *)
(***************************************************************************)
None == 0

Entity(i, art, songs) == [id |-> i, coverArt |-> art, song |-> songs]

\* what self.server may answer
ArtistLists == {<<>>, <<Entity(1, None, <<>>)>>,
                <<Entity(1, None, <<>>), Entity(2, 1, <<>>)>>}

ServerEntities(i) == {Entity(i, None, <<>>), Entity(i, 1, <<Entity(1, None, <<>>)>>)}

(***************************************************************************)
(* The categories of the cache and their container shapes.                 *)
(***************************************************************************)
cache_configs ==
    << [name |-> "song_details", default |-> "dict"],
       [name |-> "music_directories", default |-> "dict"],
       [name |-> "indexes", default |-> "list"],
       [name |-> "albums", default |-> "dict-list"],
       [name |-> "album_details", default |-> "dict"],
       [name |-> "artists", default |-> "list"],
       [name |-> "artist_details", default |-> "dict"],
       [name |-> "artist_infos", default |-> "dict"] >>

ConfigNames == {cache_configs[i].name : i \in DOMAIN cache_configs}

\* the shape of a key of the cache: "version" is a number, a key that
\* defaultdict(dict) made is a dict
Shape(name) ==
    IF name = "version" THEN "int"
    ELSE IF name \in ConfigNames
    THEN cache_configs[CHOOSE i \in DOMAIN cache_configs :
                           cache_configs[i].name = name].default
    ELSE "dict"

EmptyDict == [k \in {} |-> None]

\* keys of a dict: the int a caller passes, or the str json.load returns
IntKey(i) == [t |-> "int", v |-> i]
StrKey(i) == [t |-> "str", v |-> i]

(***************************************************************************)
(* JSON.  A text is modelled by the values json.dumps writes: per key of   *)
(* the cache a number, a list of objects, or the list of the key/value     *)
(* pairs of an object in the order they are written.                       *)
(***************************************************************************)
RECURSIVE SetToSeq(_)
SetToSeq(S) ==
    IF S = {} THEN <<>>
    ELSE LET m == CHOOSE x \in S : \A y \in S : x <= y
         IN <<m>> \o SetToSeq(S \ {m})

RECURSIVE CacheEncoder_default(_)
\* CacheEncoder.default for an APIObject: the mapping of its non-None fields
CacheEncoder_default(obj) ==
    LET fields == {"id"} \cup (IF obj.coverArt # None THEN {"coverArt"} ELSE {})
                         \cup (IF obj.song # <<>> THEN {"song"} ELSE {})
    IN [f \in fields |->
          IF f = "song"
          THEN [i \in DOMAIN obj.song |-> CacheEncoder_default(obj.song[i])]
          ELSE obj[f]]

RECURSIVE from_json(_)
\* APIObject.from_json: the object of a mapping, absent fields None
from_json(j) ==
    [id |-> j.id,
     coverArt |-> IF "coverArt" \in DOMAIN j THEN j.coverArt ELSE None,
     song |-> IF "song" \in DOMAIN j
              THEN [i \in DOMAIN j.song |-> from_json(j.song[i])]
              ELSE <<>>]

\* json.dumps writes every key of a dict as a string
JsonKey(k) == StrKey(k.v)

\* the keys of a dict in the order they were inserted: the str keys come
\* from load_cache_info, the int keys from the merges after it
KeyOrder(K) ==
    LET strs == SetToSeq({k.v : k \in {x \in K : x.t = "str"}})
        ints == SetToSeq({k.v : k \in {x \in K : x.t = "int"}})
    IN [i \in DOMAIN strs |-> StrKey(strs[i])] \o [i \in DOMAIN ints |-> IntKey(ints[i])]

EncodeList(xs) == [i \in DOMAIN xs |-> CacheEncoder_default(xs[i])]

EncodeValue(shape, x) ==
    CASE shape = "int" -> x
      [] shape = "list" -> EncodeList(x)
      [] shape = "dict" ->
           LET ks == KeyOrder(DOMAIN x)
           IN [i \in DOMAIN ks |->
                 [key |-> JsonKey(ks[i]), val |-> CacheEncoder_default(x[ks[i]])]]
      [] shape = "dict-list" ->
           LET ks == KeyOrder(DOMAIN x)
           IN [i \in DOMAIN ks |->
                 [key |-> JsonKey(ks[i]), val |-> EncodeList(x[ks[i]])]]

\* json.dumps(self.cache, cls=CacheEncoder)
json_dumps(c) == [name \in DOMAIN c |-> EncodeValue(Shape(name), c[name])]

\* json.load of an object: a repeated key keeps its last value
ParseObject(pairs) ==
    [k \in {pairs[i].key : i \in DOMAIN pairs} |->
        LET last == CHOOSE i \in DOMAIN pairs :
                        /\ pairs[i].key = k
                        /\ \A j \in DOMAIN pairs : pairs[j].key = k => j <= i
        IN pairs[last].val]

json_load(text) ==
    [name \in DOMAIN text |->
        IF Shape(name) \in {"dict", "dict-list"}
        THEN ParseObject(text[name]) ELSE text[name]]

RECURSIVE SumLen(_, _)
SumLen(text, names) ==
    IF names = {} THEN 0
    ELSE LET n == CHOOSE x \in names : TRUE
         IN 1 + (IF Shape(n) = "int" THEN 0 ELSE Len(text[n]))
              + SumLen(text, names \ {n})

\* the length of a text: one unit per key of the cache and per item
JsonLen(text) == SumLen(text, DOMAIN text)

(***************************************************************************)
(* The snapshot file: whether it exists, the text written at offset 0      *)
(* since it was last truncated (none or one), and its length.              *)
(***************************************************************************)
NoFile == [exists |-> FALSE, text |-> <<>>, len |-> 0]

\* open(cache_meta_file, "w+")
Truncated == [exists |-> TRUE, text |-> <<>>, len |-> 0]

\* a write of text at offset 0 through a descriptor opened earlier: bytes
\* beyond the text stay
WriteAtStart(file, text) ==
    [exists |-> TRUE, text |-> <<text>>,
     len |-> IF file.len > JsonLen(text) THEN file.len ELSE JsonLen(text)]

\* the file is exactly one JSON text
Parses(file) ==
    file.exists /\ file.text # <<>> /\ file.len = JsonLen(file.text[1])

\* a reading that takes the first JSON text of the file and ignores what
\* follows it
ReadMeta_FirstText(file) ==
    IF file.exists /\ file.text # <<>> THEN json_load(file.text[1]) ELSE EmptyDict

\* load_cache_info, the reading: meta_json
ReadMeta(file) == IF Parses(file) THEN json_load(file.text[1]) ELSE EmptyDict

\* load_cache_info, the filling of one category
LoadCategory(meta_json, name) ==
    LET shape == Shape(name)
        given == name \in DOMAIN meta_json
    IN CASE shape = "list" ->
              IF given THEN [i \in DOMAIN meta_json[name] |->
                                from_json(meta_json[name][i])]
              ELSE <<>>
         [] shape = "dict" ->
              IF given THEN [k \in DOMAIN meta_json[name] |->
                                from_json(meta_json[name][k])]
              ELSE EmptyDict
         [] shape = "dict-list" ->
              IF given THEN [k \in DOMAIN meta_json[name] |->
                                [i \in DOMAIN meta_json[name][k] |->
                                    from_json(meta_json[name][k][i])]]
              ELSE EmptyDict

\* load_cache_info: the class-level cache after it; keys it does not set stay
LoadedCache(file, old) ==
    LET meta_json == ReadMeta(file)
    IN ("version" :> 1) @@ [name \in ConfigNames |-> LoadCategory(meta_json, name)]
         @@ old

(***************************************************************************)
(* The cover_art/ directory and its migration in load_cache_info.  A file  *)
(* name is "<art_id>_<dimensions>", "<art_id>" or the text "{art_id}"; the *)
(* directory maps each name in it to the image the file holds.             *)
(***************************************************************************)
\* number of distinct cover art ids
NumArtIds == 2
\* the largest version a snapshot file may hold
MaxVersion == 2

ArtIds == 1..NumArtIds
Dimensions == {300, 1000}

SizedName(art_id, dimensions) ==
    [kind |-> "sized", art_id |-> art_id, dimensions |-> dimensions]
PlainName(art_id) == [kind |-> "plain", art_id |-> art_id, dimensions |-> 0]
BracesName == [kind |-> "braces", art_id |-> 0, dimensions |-> 0]

\* the image of art_id in size dimensions
Image(art_id, dimensions) == <<art_id, dimensions>>

NoFiles == [n \in {} |-> Image(0, 0)]

\* cover_art_re.match(cover_art_file.name) for r"(\d+)_(\d+)"
cover_art_re_match(name) == name.kind = "sized"

\* cover_art_file.parent.joinpath("{art_id}"): the string is not formatted
no_dimens(name) == BracesName

\* shutil.move(src, dst) of a file: dst is replaced
shutil_move(dir, src, dst) ==
    [n \in (DOMAIN dir \ {src}) \cup {dst} |-> IF n = dst THEN dir[src] ELSE dir[n]]

\* cover_art_file.unlink()
unlink(dir, name) == [n \in DOMAIN dir \ {name} |-> dir[n]]

\* the body of the loop over abs_path.iterdir() for one file
MigrateFile(dir, name) ==
    IF cover_art_re_match(name)
    THEN IF name.dimensions = 1000
         THEN shutil_move(dir, name, no_dimens(name))
         ELSE unlink(dir, name)
    ELSE dir

\* a loop that ends after the first file of the listing
MigrateFiles_FirstOnly(dir, todo) ==
    IF todo = {} THEN {dir} ELSE {MigrateFile(dir, name) : name \in todo}

RECURSIVE MigrateFiles(_, _)
\* the loop over the files todo of the listing, in every order iterdir()
\* may give them: the set of directories it can leave
MigrateFiles(dir, todo) ==
    IF todo = {} THEN {dir}
    ELSE UNION {MigrateFiles(MigrateFile(dir, name), todo \ {name}) : name \in todo}

\* meta_json.get("version", 0)
cache_version(meta_json) ==
    IF "version" \in DOMAIN meta_json THEN meta_json["version"] ELSE 0

\* load_cache_info on the directory: the migration runs below version 1
MigratedDirs(file, dir) ==
    IF cache_version(ReadMeta(file)) < 1
    THEN MigrateFiles(dir, DOMAIN dir)
    ELSE {dir}

\* a SearchResult view before it is asked for
IdleRanking == [pc |-> "idle", it |-> <<>>, result |-> <<>>]

\* get_album_list before it is called
IdleAlbumList == [pc |-> "idle", total |-> 0, type_ |-> "random", page_size |-> 0,
                  offset |-> 0, next_page |-> <<>>, albums |-> <<>>,
                  requests |-> <<>>]

\* a Result before from_data or from_server makes it.  pc is "data" for a
\* Result without a future and else the state of its future; made tells how
\* far from_server has come; done_callbacks are the callbacks the future
\* holds, fn is the one callback given to add_done_callback
IdleResult == [pc |-> "idle", before |-> "none", after |-> FALSE,
               before_thread |-> "none", download_called |-> FALSE,
               after_called |-> FALSE, after_thread |-> "none",
               made |-> "no", data |-> "None", value |-> "None",
               on_cancel |-> FALSE, on_cancel_called |-> FALSE,
               last_cancel |-> [at |-> "none", returned |-> FALSE],
               done_callbacks |-> {}, fn |-> "none", fn_calls |-> 0,
               fn_thread |-> "none", fn_early |-> FALSE]

\* number of get_artist_artwork calls
NumArtworkCalls == 3
ArtworkCalls == 1..NumArtworkCalls

\* a get_artist_artwork call before it is made: info is the task of
\* get_artist_info, outer the task that runs download_fn, download the task
\* that runs do_download
IdleArtwork == [info |-> "none", outer |-> "none", download |-> "none"]

\* CacheManager.executor as the class body makes it: not shut down, and
\* nothing in its work queue
IdleExecutor == [shutdown |-> FALSE, work_queue |-> <<>>]

\* the class attributes should_exit and executor, and nothing called
InitPool ==
    /\ should_exit = FALSE
    /\ executor = IdleExecutor
    /\ shutdown_call = "idle"
    /\ artwork = [k \in ArtworkCalls |-> IdleArtwork]

\* a SearchResult with nothing added: the class-level sets
NoResults == [album |-> {}, artist |-> {}, song |-> {}]

\* the search before it is called
IdleSearch == [pc |-> "idle", cancelled |-> FALSE, callbacks |-> <<>>,
               found |-> NoResults, failed |-> FALSE]

\* an accessor call before it is made
IdleCall == [op |-> "none", id |-> 0, force |-> FALSE, pc |-> "idle",
             value |-> <<>>, buffer |-> <<>>]

InitStore ==
    /\ cache_meta_file = NoFile
    /\ cache = LoadedCache(cache_meta_file, EmptyDict)
    /\ cache_lock = 0
    /\ call = [c \in Calls |-> IdleCall]
    /\ server_calls = 0
    /\ instance = 1
    /\ search = IdleSearch

\* nothing in cover_art/, and the other operations not called
InitRest ==
    /\ cover_art = NoFiles
    /\ ranking = IdleRanking
    /\ album_list = IdleAlbumList
    /\ results = [r \in ResultIds |-> IdleResult]
    /\ InitPool

InitDownload ==
    /\ path_exists \in [Paths -> BOOLEAN]
    /\ staged = [p \in Paths |-> FALSE]
    /\ current_downloads = {}
    /\ download_limiter_semaphore = concurrent_download_limit
    /\ dl = [t \in Requests |-> IdleDl]
    /\ fetch_count = [p \in Paths |-> 0]

\* return_cached_or_download, on the calling thread; executor.submit raises
\* RuntimeError once the executor is shut down
return_cached_or_download(t, p, force, allow_download) ==
    /\ dl[t].pc = "idle"
    /\ UNCHANGED <<storeVars, moreVars>>
    /\ \E r \in {[dl[t] EXCEPT !.path = p, !.force = force]} :
        IF path_exists[p] /\ ~force
        THEN dl' = [dl EXCEPT ![t] = [r EXCEPT !.pc = "immediate", !.result = p]]
        ELSE IF ~allow_download
        THEN dl' = [dl EXCEPT ![t] = [r EXCEPT !.pc = "immediate",
                                               !.result = EmptyString]]
        ELSE IF executor.shutdown
        THEN dl' = [dl EXCEPT ![t] = [r EXCEPT !.pc = "RuntimeError"]]
        ELSE dl' = [dl EXCEPT ![t] = [r EXCEPT !.pc = "queued"]]
    /\ UNCHANGED <<path_exists, staged, current_downloads,
                   download_limiter_semaphore, fetch_count>>

\* do_download, the section under download_set_lock: test and add the key.
\* A worker that found the key goes to the poll loop; the other one calls
\* download_fn right away.
do_download_claim(t) ==
    /\ dl[t].pc = "queued"
    /\ UNCHANGED <<storeVars, moreVars>>
    /\ current_downloads' = current_downloads \cup {dl[t].path}
    /\ IF dl[t].path \in current_downloads
       THEN /\ dl' = [dl EXCEPT ![t].pc = "poll"]
            /\ UNCHANGED fetch_count
       ELSE /\ dl' = [dl EXCEPT ![t].pc = "downloading"]
            /\ fetch_count' = [fetch_count EXCEPT ![dl[t].path] = @ + 1]
    /\ UNCHANGED <<path_exists, staged, download_limiter_semaphore>>

\* do_download, the busy loop: left once the key is gone
do_download_poll(t) ==
    /\ dl[t].pc = "poll"
    /\ UNCHANGED <<storeVars, moreVars>>
    /\ dl[t].path \notin current_downloads
    /\ dl' = [dl EXCEPT ![t].pc = "returning"]
    /\ UNCHANGED <<path_exists, staged, current_downloads,
                   download_limiter_semaphore, fetch_count>>

\* save_file(download_path, download_fn()) succeeds
do_download_fetch(t) ==
    /\ dl[t].pc = "downloading"
    /\ UNCHANGED <<storeVars, moreVars>>
    /\ staged' = [staged EXCEPT ![dl[t].path] = TRUE]
    /\ dl' = [dl EXCEPT ![t].pc = "move", ![t].fetch = "ok"]
    /\ UNCHANGED <<path_exists, current_downloads,
                   download_limiter_semaphore, fetch_count>>

\* download_fn raises requests.exceptions.ConnectionError: the handler
\* discards the key and do_download goes on
do_download_connection_error(t) ==
    /\ dl[t].pc = "downloading"
    /\ UNCHANGED <<storeVars, moreVars>>
    /\ current_downloads' = current_downloads \ {dl[t].path}
    /\ dl' = [dl EXCEPT ![t].pc = "move", ![t].fetch = "connection_error"]
    /\ UNCHANGED <<path_exists, staged, download_limiter_semaphore, fetch_count>>

\* download_fn or save_file raises anything else: no handler, the future
\* fails, and its done callback raises in f.result() before after_download
do_download_other_error(t) ==
    /\ dl[t].pc = "downloading"
    /\ UNCHANGED <<storeVars, moreVars>>
    /\ dl' = [dl EXCEPT ![t].pc = "failed", ![t].fetch = "other_error",
                        ![t].result = Raised]
    /\ UNCHANGED <<path_exists, staged, current_downloads,
                   download_limiter_semaphore, fetch_count>>

\* do_download: move the staging file, if there is one, to the cache path
do_download_move(t) ==
    /\ dl[t].pc = "move"
    /\ UNCHANGED <<storeVars, moreVars>>
    /\ IF staged[dl[t].path]
       THEN /\ path_exists' = [path_exists EXCEPT ![dl[t].path] = TRUE]
            /\ staged' = [staged EXCEPT ![dl[t].path] = FALSE]
       ELSE UNCHANGED <<path_exists, staged>>
    /\ dl' = [dl EXCEPT ![t].pc = "returning"]
    /\ UNCHANGED <<current_downloads, download_limiter_semaphore, fetch_count>>

\* do_download returns abs_path_str: the future is finished with that value
do_download_return(t) ==
    /\ dl[t].pc = "returning"
    /\ UNCHANGED <<storeVars, moreVars>>
    /\ dl' = [dl EXCEPT ![t].pc = "callback", ![t].result = dl[t].path]
    /\ UNCHANGED <<path_exists, staged, current_downloads,
                   download_limiter_semaphore, fetch_count>>

\* return_cached_or_download.after_download, the future's done callback
after_download(t) ==
    /\ dl[t].pc = "callback"
    /\ UNCHANGED <<storeVars, moreVars>>
    /\ current_downloads' = current_downloads \ {dl[t].result}
    /\ dl' = [dl EXCEPT ![t].pc = "done"]
    /\ UNCHANGED <<path_exists, staged, download_limiter_semaphore, fetch_count>>

NextDownload ==
    \/ \E t \in Requests, p \in Paths, force \in BOOLEAN, allow \in BOOLEAN :
         return_cached_or_download(t, p, force, allow)
    \/ \E t \in Requests : do_download_claim(t)
    \/ \E t \in Requests : do_download_poll(t)
    \/ \E t \in Requests : do_download_fetch(t)
    \/ \E t \in Requests : do_download_connection_error(t)
    \/ \E t \in Requests : do_download_other_error(t)
    \/ \E t \in Requests : do_download_move(t)
    \/ \E t \in Requests : do_download_return(t)
    \/ \E t \in Requests : after_download(t)

InitDownloadSpec == InitDownload /\ InitStore /\ InitRest

DownloadSpec == InitDownloadSpec /\ [][NextDownload]_vars

(***************************************************************************)
(* The entity accessors.  Each call returns a Result: immediate from the   *)
(* cache, or a future whose worker fetches, finishes the future, and then  *)
(* runs after_download (merge under cache_lock, save_cache_info).          *)
(***************************************************************************)
\* the category an accessor reads and writes
cache_name(op) ==
    CASE op = "get_artists" -> "artists"
      [] op = "get_artist" -> "artist_details"
      [] op = "get_album" -> "album_details"
      [] op = "get_music_directory" -> "music_directories"
      [] op = "get_artist_info" -> "artist_infos"

IdOps == {"get_artist", "get_album", "get_music_directory", "get_artist_info"}

\* positions at which the future of a call is finished with a value
Resolved == {"resolved", "merge", "merge_songs", "save_open", "save_lock",
             "save_dump", "save_close", "done"}

\* `id in self.cache.get(cache_name, {})` for the int a caller passes
CacheHit(c, name, i) == IntKey(i) \in DOMAIN c[name]

\* get_artists, on the calling thread
get_artists(c, force) ==
    /\ call[c].pc = "idle"
    /\ IF cache["artists"] # <<>> /\ ~force
       THEN call' = [call EXCEPT ![c] = [@ EXCEPT !.op = "get_artists",
                        !.force = force, !.pc = "immediate",
                        !.value = cache["artists"]]]
       ELSE call' = [call EXCEPT ![c] = [@ EXCEPT !.op = "get_artists",
                        !.force = force, !.pc = "queued"]]
    /\ UNCHANGED <<cache, cache_lock, cache_meta_file, server_calls, instance, search>>
    /\ UNCHANGED <<dlVars, moreVars>>

\* get_artist, get_album, get_music_directory, get_artist_info, on the
\* calling thread
get_by_id(c, op, i, force) ==
    /\ call[c].pc = "idle"
    /\ IF CacheHit(cache, cache_name(op), i) /\ ~force
       THEN call' = [call EXCEPT ![c] = [@ EXCEPT !.op = op, !.id = i,
                        !.force = force, !.pc = "immediate",
                        !.value = <<cache[cache_name(op)][IntKey(i)]>>]]
       ELSE call' = [call EXCEPT ![c] = [@ EXCEPT !.op = op, !.id = i,
                        !.force = force, !.pc = "queued"]]
    /\ UNCHANGED <<cache, cache_lock, cache_meta_file, server_calls, instance, search>>
    /\ UNCHANGED <<dlVars, moreVars>>

get_artist(c, i, force) == get_by_id(c, "get_artist", i, force)
get_album(c, i, force) == get_by_id(c, "get_album", i, force)
get_music_directory(c, i, force) == get_by_id(c, "get_music_directory", i, force)
get_artist_info(c, i, force) == get_by_id(c, "get_artist_info", i, force)

\* what download_fn of a call may return
ServerValues(c) ==
    IF call[c].op = "get_artists" THEN ArtistLists
    ELSE {<<e>> : e \in ServerEntities(call[c].id)}

\* future_fn on a worker: download_fn returns and the future is finished
\* with its value; result() returns from here on
future_fn(c) ==
    /\ call[c].pc = "queued"
    /\ \E v \in ServerValues(c) :
         call' = [call EXCEPT ![c].pc = "resolved", ![c].value = v]
    /\ server_calls' = server_calls + 1
    /\ UNCHANGED <<cache, cache_lock, cache_meta_file, instance, search>>
    /\ UNCHANGED <<dlVars, moreVars>>

\* a done callback that stores None for the id when the future failed
future_fn_raises_and_stores(c) ==
    /\ call[c].pc = "queued"
    /\ call' = [call EXCEPT ![c].pc = "failed"]
    /\ server_calls' = server_calls + 1
    /\ cache' = [cache EXCEPT ![cache_name(call[c].op)] =
                                 (IntKey(call[c].id) :> None) @@ @]
    /\ UNCHANGED <<cache_lock, cache_meta_file, instance, search>>
    /\ UNCHANGED <<dlVars, moreVars>>

\* future_fn on a worker: download_fn raises; the done callback raises in
\* f.result(), so after_download is not called
future_fn_raises(c) ==
    /\ call[c].pc = "queued"
    /\ call' = [call EXCEPT ![c].pc = "failed"]
    /\ server_calls' = server_calls + 1
    /\ UNCHANGED <<cache, cache_lock, cache_meta_file, instance, search>>
    /\ UNCHANGED <<dlVars, moreVars>>

\* after_download: `with self.cache_lock:` entered
after_download_lock(c) ==
    /\ call[c].pc = "resolved"
    /\ cache_lock = 0
    /\ cache_lock' = c
    /\ call' = [call EXCEPT ![c].pc = "merge"]
    /\ UNCHANGED <<cache, cache_meta_file, server_calls, instance, search>>
    /\ UNCHANGED <<dlVars, moreVars>>

\* get_artists.after_download: self.cache[cache_name] = artists, lock left
merge_list(c) ==
    /\ call[c].pc = "merge"
    /\ call[c].op = "get_artists"
    /\ cache' = [cache EXCEPT ![cache_name(call[c].op)] = call[c].value]
    /\ cache_lock' = 0
    /\ call' = [call EXCEPT ![c].pc = "save_open"]
    /\ UNCHANGED <<cache_meta_file, server_calls, instance, search>>
    /\ UNCHANGED <<dlVars, moreVars>>

\* self.cache[cache_name][id] = entity
PutEntity(c, name, i, e) ==
    [c EXCEPT ![name] = (IntKey(i) :> e) @@ c[name]]

\* after_download of get_artist, get_music_directory, get_artist_info:
\* self.cache[cache_name][id] = entity, lock left
merge_entity(c) ==
    /\ call[c].pc = "merge"
    /\ call[c].op \in IdOps \ {"get_album"}
    /\ cache' = PutEntity(cache, cache_name(call[c].op), call[c].id,
                          call[c].value[1])
    /\ cache_lock' = 0
    /\ call' = [call EXCEPT ![c].pc = "save_open"]
    /\ UNCHANGED <<cache_meta_file, server_calls, instance, search>>
    /\ UNCHANGED <<dlVars, moreVars>>

\* get_album.after_download: self.cache[cache_name][album_id] = album
merge_album(c) ==
    /\ call[c].pc = "merge"
    /\ call[c].op = "get_album"
    /\ cache' = PutEntity(cache, "album_details", call[c].id, call[c].value[1])
    /\ call' = [call EXCEPT ![c].pc = "merge_songs"]
    /\ UNCHANGED <<cache_lock, cache_meta_file, server_calls, instance, search>>
    /\ UNCHANGED <<dlVars, moreVars>>

RECURSIVE PutSongs(_, _)
PutSongs(c, songs) ==
    IF songs = <<>> THEN c
    ELSE PutSongs(PutEntity(c, "song_details", Head(songs).id, Head(songs)),
                  Tail(songs))

\* get_album.after_download: the songs of the album go to song_details,
\* lock left
merge_songs(c) ==
    /\ call[c].pc = "merge_songs"
    /\ cache' = PutSongs(cache, call[c].value[1].song)
    /\ cache_lock' = 0
    /\ call' = [call EXCEPT ![c].pc = "save_open"]
    /\ UNCHANGED <<cache_meta_file, server_calls, instance, search>>
    /\ UNCHANGED <<dlVars, moreVars>>

\* save_cache_info: open(cache_meta_file, "w+") truncates the file
save_cache_info_open(c) ==
    /\ call[c].pc = "save_open"
    /\ cache_meta_file' = Truncated
    /\ call' = [call EXCEPT ![c].pc = "save_lock"]
    /\ UNCHANGED <<cache, cache_lock, server_calls, instance, search>>
    /\ UNCHANGED <<dlVars, moreVars>>

\* save_cache_info: cache_lock entered, after the file was opened
save_cache_info_lock(c) ==
    /\ call[c].pc = "save_lock"
    /\ cache_lock = 0
    /\ cache_lock' = c
    /\ call' = [call EXCEPT ![c].pc = "save_dump"]
    /\ UNCHANGED <<cache, cache_meta_file, server_calls, instance, search>>
    /\ UNCHANGED <<dlVars, moreVars>>

\* save_cache_info: f.write(json.dumps(self.cache)) fills the buffer of f,
\* and the lock is left before f is closed
save_cache_info_write(c) ==
    /\ call[c].pc = "save_dump"
    /\ call' = [call EXCEPT ![c].pc = "save_close",
                            ![c].buffer = <<json_dumps(cache)>>]
    /\ cache_lock' = 0
    /\ UNCHANGED <<cache, cache_meta_file, server_calls, instance, search>>
    /\ UNCHANGED <<dlVars, moreVars>>

\* save_cache_info: f is closed, its buffer goes to the file at offset 0
save_cache_info_close(c) ==
    /\ call[c].pc = "save_close"
    /\ cache_meta_file' = WriteAtStart(cache_meta_file, call[c].buffer[1])
    /\ call' = [call EXCEPT ![c].pc = "done", ![c].buffer = <<>>]
    /\ UNCHANGED <<cache, cache_lock, server_calls, instance, search>>
    /\ UNCHANGED <<dlVars, moreVars>>

\* get_artists calls and their workers
NextArtists ==
    \/ \E c \in Calls, force \in BOOLEAN : get_artists(c, force)
    \/ \E c \in Calls : future_fn(c)
    \/ \E c \in Calls : future_fn_raises(c)
    \/ \E c \in Calls : after_download_lock(c)
    \/ \E c \in Calls : merge_list(c)
    \/ \E c \in Calls : save_cache_info_open(c)
    \/ \E c \in Calls : save_cache_info_lock(c)
    \/ \E c \in Calls : save_cache_info_write(c)
    \/ \E c \in Calls : save_cache_info_close(c)

\* the download manager at rest, no file cached
NoDownloads == InitDownload /\ path_exists = [p \in Paths |-> FALSE]

InitArtistsSpec == NoDownloads /\ InitStore /\ InitRest

ArtistsSpec == InitArtistsSpec /\ [][NextArtists]_vars


(***************************************************************************)
(* search: the call, the phases of do_search on a worker, and cancel.      *)
(* found is the SearchResult (the ids per result type), callbacks the      *)
(* `final` flag of every search_callback made.                             *)
(***************************************************************************)
\* SearchResult.add_results: results None is skipped, else a set union
add_results(search_result, result_type, given) ==
    IF given = <<>> THEN search_result
    ELSE [search_result EXCEPT ![result_type] = @ \cup given[1]]

\* the ids of the entities of a list, and of the lists of a dict
IdsOf(xs) == {xs[i].id : i \in DOMAIN xs}
ChainIds(d) == UNION {IdsOf(d[k]) : k \in DOMAIN d}

\* do_search, the local results: albums, artists and songs of the cache
LocalResults(c) ==
    LET r1 == add_results(NoResults, "album", <<ChainIds(c["albums"])>>)
        r2 == add_results(r1, "artist", <<IdsOf(c["artists"])>>)
    IN add_results(r2, "song", <<{c["song_details"][k].id : k \in DOMAIN c["song_details"]}>>)

\* a field of the answer of search3: None when absent
Field(server_result, name) ==
    IF name \in DOMAIN server_result THEN <<server_result[name]>> ELSE <<>>

\* do_search, the three add_results of the server's answer
WithServerResults(search_result, server_result) ==
    LET r1 == add_results(search_result, "album", Field(server_result, "album"))
        r2 == add_results(r1, "artist", Field(server_result, "artist"))
    IN add_results(r2, "song", Field(server_result, "song"))

\* what self.server.search3 may answer: albums and artists, each or none
SearchAnswers == UNION {[T -> SUBSET Ids] : T \in SUBSET {"album", "artist"}}

\* the answer with no field
NoAnswer == [t \in {} |-> {}]

\* search(query, search_callback) on the calling thread
search_call(query_empty) ==
    /\ search.pc = "idle"
    /\ IF query_empty
       THEN search' = [search EXCEPT !.pc = "immediate",
                                     !.callbacks = Append(@, TRUE)]
       ELSE search' = [search EXCEPT !.pc = "queued"]
    /\ UNCHANGED <<cache, cache_lock, cache_meta_file, call, server_calls, instance>>
    /\ UNCHANGED <<dlVars, moreVars>>

\* a worker takes do_search from the queue and sleeps
do_search_start ==
    /\ search.pc = "queued"
    /\ search' = [search EXCEPT !.pc = "sleep"]
    /\ UNCHANGED <<cache, cache_lock, cache_meta_file, call, server_calls, instance>>
    /\ UNCHANGED <<dlVars, moreVars>>

\* self.cache["playlists"] on a defaultdict(dict): a missing key is inserted
ReadDefault(c, name) == IF name \in DOMAIN c THEN c ELSE (name :> EmptyDict) @@ c

\* do_search after the first sleep: return if cancelled, else collect the
\* local results from the cache
do_search_local ==
    /\ search.pc = "sleep"
    /\ IF search.cancelled
       THEN /\ search' = [search EXCEPT !.pc = "done"]
            /\ UNCHANGED cache
       ELSE /\ cache' = ReadDefault(cache, "playlists")
            /\ search' = [search EXCEPT !.pc = "built",
                                        !.found = LocalResults(cache)]
    /\ UNCHANGED <<cache_lock, cache_meta_file, call, server_calls, instance>>
    /\ UNCHANGED <<dlVars, moreVars>>

\* a do_search that goes to the second sleep without the local callback
do_search_local_no_callback ==
    /\ search.pc = "built"
    /\ search' = [search EXCEPT !.pc = "local"]
    /\ UNCHANGED <<cache, cache_lock, cache_meta_file, call, server_calls, instance>>
    /\ UNCHANGED <<dlVars, moreVars>>

\* do_search: search_callback(search_result, False), then the second sleep
do_search_local_callback ==
    /\ search.pc = "built"
    /\ search' = [search EXCEPT !.pc = "local", !.callbacks = Append(@, FALSE)]
    /\ UNCHANGED <<cache, cache_lock, cache_meta_file, call, server_calls, instance>>
    /\ UNCHANGED <<dlVars, moreVars>>

\* do_search after the second sleep: return if cancelled, else call
\* self.server.search3(query)
do_search_server ==
    /\ search.pc = "local"
    /\ IF search.cancelled
       THEN /\ search' = [search EXCEPT !.pc = "done"]
            /\ UNCHANGED server_calls
       ELSE /\ search' = [search EXCEPT !.pc = "search3"]
            /\ server_calls' = server_calls + 1
    /\ UNCHANGED <<cache, cache_lock, cache_meta_file, call, instance>>
    /\ UNCHANGED <<dlVars, moreVars>>

\* a do_search whose except clause returns with no finally clause after it
do_search_no_finally(raises, server_result) ==
    /\ search.pc = "search3"
    /\ search' = [search EXCEPT
                    !.pc = "done",
                    !.failed = raises,
                    !.found = IF raises THEN @
                              ELSE WithServerResults(@, server_result),
                    !.callbacks = IF raises THEN @ ELSE Append(@, TRUE)]
    /\ UNCHANGED <<cache, cache_lock, cache_meta_file, call, server_calls, instance>>
    /\ UNCHANGED <<dlVars, moreVars>>

\* do_search: search3 returns server_result or raises; the except clause
\* returns, and the finally clause calls search_callback(search_result, True)
do_search_finally(raises, server_result) ==
    /\ search.pc = "search3"
    /\ search' = [search EXCEPT
                    !.pc = "done",
                    !.failed = raises,
                    !.found = IF raises THEN @
                              ELSE WithServerResults(@, server_result),
                    !.callbacks = Append(@, TRUE)]
    /\ UNCHANGED <<cache, cache_lock, cache_meta_file, call, server_calls, instance>>
    /\ UNCHANGED <<dlVars, moreVars>>

\* Result.cancel on the search's Result: on_cancel sets the flag, and
\* future.cancel() takes a future that has not started from the queue
search_cancel ==
    /\ search.pc \in {"queued", "sleep", "built", "local", "search3", "done"}
    /\ ~search.cancelled
    /\ search' = [search EXCEPT !.cancelled = TRUE,
                                !.pc = IF @ = "queued" THEN "cancelled" ELSE @]
    /\ UNCHANGED <<cache, cache_lock, cache_meta_file, call, server_calls, instance>>
    /\ UNCHANGED <<dlVars, moreVars>>

\* CacheManager.reset: a new __CacheManagerInternal; its __init__ makes the
\* semaphore and runs load_cache_info on the class-level cache, with no lock
reset ==
    /\ instance < MaxInstances
    /\ instance' = instance + 1
    /\ download_limiter_semaphore' = concurrent_download_limit
    /\ cover_art' \in MigratedDirs(cache_meta_file, cover_art)
    /\ cache' = LoadedCache(cache_meta_file, cache)
    /\ UNCHANGED <<cache_lock, cache_meta_file, call, server_calls, search>>
    /\ UNCHANGED <<path_exists, staged, current_downloads, dl, fetch_count>>
    /\ UNCHANGED <<ranking, album_list, results, poolVars>>

\* the entity accessors by id, their workers, and reset
NextSnapshot ==
    \/ \E c \in Calls, i \in Ids, force \in BOOLEAN : get_artist(c, i, force)
    \/ \E c \in Calls, i \in Ids, force \in BOOLEAN : get_album(c, i, force)
    \/ \E c \in Calls, i \in Ids, force \in BOOLEAN : get_music_directory(c, i, force)
    \/ \E c \in Calls, i \in Ids, force \in BOOLEAN : get_artist_info(c, i, force)
    \/ \E c \in Calls : future_fn(c)
    \/ \E c \in Calls : future_fn_raises(c)
    \/ \E c \in Calls : after_download_lock(c)
    \/ \E c \in Calls : merge_entity(c)
    \/ \E c \in Calls : merge_album(c)
    \/ \E c \in Calls : merge_songs(c)
    \/ \E c \in Calls : save_cache_info_open(c)
    \/ \E c \in Calls : save_cache_info_lock(c)
    \/ \E c \in Calls : save_cache_info_write(c)
    \/ \E c \in Calls : save_cache_info_close(c)
    \/ reset

InitSnapshotSpec == NoDownloads /\ InitStore /\ InitRest

SnapshotSpec == InitSnapshotSpec /\ [][NextSnapshot]_vars

\* get_album calls and their workers beside a search
NextSearch ==
    \/ \E c \in Calls, i \in Ids, force \in BOOLEAN : get_album(c, i, force)
    \/ \E c \in Calls : future_fn(c)
    \/ \E c \in Calls : future_fn_raises(c)
    \/ \E c \in Calls : after_download_lock(c)
    \/ \E c \in Calls : merge_album(c)
    \/ \E c \in Calls : merge_songs(c)
    \/ \E c \in Calls : save_cache_info_open(c)
    \/ \E c \in Calls : save_cache_info_lock(c)
    \/ \E c \in Calls : save_cache_info_write(c)
    \/ \E c \in Calls : save_cache_info_close(c)
    \/ \E e \in BOOLEAN : search_call(e)
    \/ do_search_start
    \/ do_search_local
    \/ do_search_local_callback
    \/ do_search_server
    \/ \E raises \in BOOLEAN : do_search_finally(raises, NoAnswer)
    \/ search_cancel

InitSearchSpec == NoDownloads /\ InitStore /\ InitRest

SearchSpec == InitSearchSpec /\ [][NextSearch]_vars

\* get_album calls and their workers: fetch, merge and save; and reset
NextAlbum ==
    \/ \E c \in Calls, i \in Ids : get_album(c, i, FALSE)
    \/ \E c \in Calls : future_fn(c)
    \/ \E c \in Calls : after_download_lock(c)
    \/ \E c \in Calls : merge_album(c)
    \/ \E c \in Calls : merge_songs(c)
    \/ \E c \in Calls : save_cache_info_open(c)
    \/ \E c \in Calls : save_cache_info_lock(c)
    \/ \E c \in Calls : save_cache_info_write(c)
    \/ \E c \in Calls : save_cache_info_close(c)
    \/ reset

InitAlbumSpec == NoDownloads /\ InitStore /\ InitRest

AlbumSpec == InitAlbumSpec /\ [][NextAlbum]_vars

\* get_artist calls and their workers, whose download_fn returns or raises
NextFetch ==
    \/ \E c \in Calls, i \in Ids : get_artist(c, i, FALSE)
    \/ \E c \in Calls : future_fn(c)
    \/ \E c \in Calls : future_fn_raises(c)
    \/ \E c \in Calls : after_download_lock(c)
    \/ \E c \in Calls : merge_entity(c)
    \/ \E c \in Calls : save_cache_info_open(c)
    \/ \E c \in Calls : save_cache_info_lock(c)
    \/ \E c \in Calls : save_cache_info_write(c)
    \/ \E c \in Calls : save_cache_info_close(c)

InitFetchSpec == NoDownloads /\ InitStore /\ InitRest

FetchSpec == InitFetchSpec /\ [][NextFetch]_vars

(***************************************************************************)
(* The starts of the program on what an earlier run left: a snapshot file  *)
(* of any version, or one that does not parse, and a cover_art/ directory  *)
(* of sized images.  Each reset runs load_cache_info.                      *)
(***************************************************************************)
\* stores an earlier run may have saved
SavedStores ==
    LET empty == LoadedCache(NoFile, EmptyDict)
    IN {empty, [empty EXCEPT !["artists"] = <<Entity(1, None, <<>>)>>]}

\* their texts, with every version and with none
SnapshotTexts ==
    {[json_dumps(s) EXCEPT !["version"] = v] : s \in SavedStores, v \in 0..MaxVersion}
      \cup {[name \in ConfigNames |-> json_dumps(s)[name]] : s \in SavedStores}

\* no file, an empty file, a text, and a text with bytes after it
SnapshotFiles ==
    {NoFile, Truncated}
      \cup {WriteAtStart(Truncated, t) : t \in SnapshotTexts}
      \cup {[exists |-> TRUE, text |-> <<t>>, len |-> JsonLen(t) + 1] : t \in SnapshotTexts}

SizedNames == {SizedName(i, d) : i \in ArtIds, d \in Dimensions}

\* directories of sized images, each file holding the image of its name
SizedDirs ==
    {[n \in N |-> Image(n.art_id, n.dimensions)] : N \in SUBSET SizedNames}

InitMigrationSpec ==
    /\ NoDownloads
    /\ cache_meta_file \in SnapshotFiles
    /\ cache = EmptyDict
    /\ cache_lock = 0
    /\ call = [c \in Calls |-> IdleCall]
    /\ server_calls = 0
    /\ instance = 0
    /\ search = IdleSearch
    /\ cover_art \in SizedDirs
    /\ ranking = IdleRanking
    /\ album_list = IdleAlbumList
    /\ results = [r \in ResultIds |-> IdleResult]
    /\ InitPool

NextMigration == reset

MigrationSpec == InitMigrationSpec /\ [][NextMigration]_vars

(***************************************************************************)
(* get_album_list.  The server holds `total` albums of the list type; the  *)
(* album at place i is the entity of id i.  requests lists the offset and  *)
(* size of every get_album_list2 request made.                             *)
(***************************************************************************)
\* the largest number of full pages the server's list holds
MaxPages == 2

ListTypes == {"random", "newest"}

\* the lengths of the server's list: around every multiple of a page size
AlbumCounts ==
    {n \in {k * size + d : k \in 0..MaxPages, size \in {40, 500}, d \in {0 - 1, 0, 1}} :
        n >= 0}

\* the key of a list type in self.cache["albums"]
TypeKey(type_) == StrKey(IF type_ = "random" THEN 1 ELSE 2)

\* self.server.get_album_list2(type_, size, offset).album or []
get_album_list2(total, size, offset) ==
    LET n == IF offset >= total THEN 0
             ELSE IF total - offset < size THEN total - offset ELSE size
    IN [i \in 1..n |-> Entity(offset + i, None, <<>>)]

\* page_size = 40 if type_ == "random" else 500
page_size_of(type_) == IF type_ = "random" THEN 40 ELSE 500

\* a loop that goes on while the page is as long as the page size asked for
more_pages_by_page_size(al) == Len(al.next_page) = al.page_size

\* while len(next_page) == 500
more_pages(al) == Len(al.next_page) = 500

\* len(self.cache.get("albums", {}).get(type_, [])) > 0
AlbumListHit(c, type_) ==
    /\ TypeKey(type_) \in DOMAIN c["albums"]
    /\ c["albums"][TypeKey(type_)] # <<>>

\* get_album_list, on the calling thread
get_album_list(c, type_, force) ==
    /\ call[c].pc = "idle"
    /\ album_list.pc \in {"idle", "returned", "raised"}
    /\ IF AlbumListHit(cache, type_) /\ ~force
       THEN /\ call' = [call EXCEPT ![c] = [@ EXCEPT !.op = "get_album_list",
                           !.force = force, !.pc = "immediate",
                           !.value = cache["albums"][TypeKey(type_)]]]
            /\ UNCHANGED album_list
       ELSE /\ call' = [call EXCEPT ![c] = [@ EXCEPT !.op = "get_album_list",
                           !.force = force, !.pc = "list_queued"]]
            /\ album_list' = [IdleAlbumList EXCEPT !.pc = "queued",
                                                   !.total = album_list.total,
                                                   !.type_ = type_]
    /\ UNCHANGED <<cache, cache_lock, cache_meta_file, server_calls, instance, search>>
    /\ UNCHANGED <<dlVars, cover_art, ranking, results, poolVars>>

\* do_get_album_list on a worker, up to the loop: the first page
do_get_album_list_first(c) ==
    /\ call[c].pc = "list_queued"
    /\ album_list.pc = "queued"
    /\ LET page_size == page_size_of(album_list.type_)
           next_page == get_album_list2(album_list.total, page_size, 0)
       IN album_list' = [album_list EXCEPT
                            !.pc = "loop",
                            !.page_size = page_size,
                            !.offset = 0,
                            !.next_page = next_page,
                            !.albums = next_page,
                            !.requests = <<[offset |-> 0, size |-> page_size]>>]
    /\ server_calls' = server_calls + 1
    /\ UNCHANGED <<cache, cache_lock, cache_meta_file, call, instance, search>>
    /\ UNCHANGED <<dlVars, cover_art, ranking, results, poolVars>>

\* do_get_album_list, the while loop: one more page, or the return of
\* albums, with which the future is finished
do_get_album_list_loop(c) ==
    /\ call[c].pc = "list_queued"
    /\ album_list.pc = "loop"
    /\ IF more_pages(album_list)
       THEN LET next_page == get_album_list2(album_list.total, 500, album_list.offset)
            IN /\ album_list' = [album_list EXCEPT
                                    !.next_page = next_page,
                                    !.albums = @ \o next_page,
                                    !.offset = @ + 500,
                                    !.requests = Append(@, [offset |-> album_list.offset,
                                                            size |-> 500])]
               /\ server_calls' = server_calls + 1
               /\ UNCHANGED call
       ELSE /\ album_list' = [album_list EXCEPT !.pc = "returned"]
            /\ call' = [call EXCEPT ![c].pc = "resolved",
                                    ![c].value = album_list.albums]
            /\ UNCHANGED server_calls
    /\ UNCHANGED <<cache, cache_lock, cache_meta_file, instance, search>>
    /\ UNCHANGED <<dlVars, cover_art, ranking, results, poolVars>>

\* do_get_album_list: a request of a page raises, and so does the future
do_get_album_list_raises(c) ==
    /\ call[c].pc = "list_queued"
    /\ album_list.pc \in {"queued", "loop"}
    /\ album_list.pc = "loop" => more_pages(album_list)
    /\ album_list' = [album_list EXCEPT !.pc = "raised"]
    /\ call' = [call EXCEPT ![c].pc = "failed"]
    /\ server_calls' = server_calls + 1
    /\ UNCHANGED <<cache, cache_lock, cache_meta_file, instance, search>>
    /\ UNCHANGED <<dlVars, cover_art, ranking, results, poolVars>>

\* get_album_list.after_download: self.cache["albums"][type_] = albums,
\* lock left
merge_album_list(c) ==
    /\ call[c].pc = "merge"
    /\ call[c].op = "get_album_list"
    /\ cache' = [cache EXCEPT !["albums"] =
                    (TypeKey(album_list.type_) :> call[c].value) @@ @]
    /\ cache_lock' = 0
    /\ call' = [call EXCEPT ![c].pc = "save_open"]
    /\ UNCHANGED <<cache_meta_file, server_calls, instance, search>>
    /\ UNCHANGED <<dlVars, moreVars>>

\* get_album_list calls, the worker of each, and its after_download
NextAlbumList ==
    \/ \E c \in Calls, type_ \in ListTypes, force \in BOOLEAN :
          get_album_list(c, type_, force)
    \/ \E c \in Calls : do_get_album_list_first(c)
    \/ \E c \in Calls : do_get_album_list_loop(c)
    \/ \E c \in Calls : do_get_album_list_raises(c)
    \/ \E c \in Calls : after_download_lock(c)
    \/ \E c \in Calls : merge_album_list(c)
    \/ \E c \in Calls : save_cache_info_open(c)
    \/ \E c \in Calls : save_cache_info_lock(c)
    \/ \E c \in Calls : save_cache_info_write(c)
    \/ \E c \in Calls : save_cache_info_close(c)

InitAlbumListSpec ==
    /\ NoDownloads
    /\ InitStore
    /\ cover_art = NoFiles
    /\ ranking = IdleRanking
    /\ album_list \in {[IdleAlbumList EXCEPT !.total = n] : n \in AlbumCounts}
    /\ results = [r \in ResultIds |-> IdleResult]
    /\ InitPool

AlbumListSpec == InitAlbumListSpec /\ [][NextAlbumList]_vars

\* get_album_list calls and the worker of each, without its after_download
NextPaging ==
    \/ \E c \in Calls, type_ \in ListTypes, force \in BOOLEAN :
          get_album_list(c, type_, force)
    \/ \E c \in Calls : do_get_album_list_first(c)
    \/ \E c \in Calls : do_get_album_list_loop(c)
    \/ \E c \in Calls : do_get_album_list_raises(c)

\* the worker of do_get_album_list
do_get_album_list ==
    \E c \in Calls : do_get_album_list_first(c) \/ do_get_album_list_loop(c)

\* the executor runs a submitted do_get_album_list, and every request of a
\* page returns or raises
FairPagingSpec ==
    InitAlbumListSpec /\ [][NextPaging]_vars /\ WF_vars(do_get_album_list)

(***************************************************************************)
(* CacheManager.shutdown with downloads in flight.  ThreadPoolExecutor's   *)
(* shutdown() refuses new work from then on and waits until every task     *)
(* that was submitted, queued or running, has ended.                       *)
(***************************************************************************)
\* the requests whose do_download is queued or running on a worker, the done
\* callback after_download included
ActiveDownloads ==
    {t \in Requests :
        dl[t].pc \in {"queued", "poll", "downloading", "move", "returning",
                      "callback"}}

\* CacheManager.shutdown on the calling thread: should_exit is set and
\* executor.shutdown() is entered
shutdown_start ==
    /\ shutdown_call = "idle"
    /\ should_exit' = TRUE
    /\ executor' = [executor EXCEPT !.shutdown = TRUE]
    /\ shutdown_call' = "joining"
    /\ UNCHANGED <<dlVars, storeVars, cover_art, ranking, album_list, results,
                   artwork>>

\* executor.shutdown() returns: no task is queued or running any more
shutdown_join ==
    /\ shutdown_call = "joining"
    /\ ActiveDownloads = {}
    /\ shutdown_call' = "saving"
    /\ UNCHANGED <<dlVars, storeVars, cover_art, ranking, album_list, results,
                   should_exit, executor, artwork>>

\* CacheManager.shutdown, the rest: save_cache_info() of the instance
\* writes the store to the snapshot file, and shutdown returns
shutdown_save ==
    /\ shutdown_call = "saving"
    /\ cache_lock = 0
    /\ cache_meta_file' = WriteAtStart(Truncated, json_dumps(cache))
    /\ shutdown_call' = "returned"
    /\ UNCHANGED <<cache, cache_lock, call, server_calls, instance, search>>
    /\ UNCHANGED <<dlVars, cover_art, ranking, album_list, results,
                   should_exit, executor, artwork>>

\* the workers of do_download
do_download ==
    \E t \in Requests :
       \/ do_download_claim(t)
       \/ do_download_poll(t)
       \/ do_download_fetch(t)
       \/ do_download_connection_error(t)
       \/ do_download_other_error(t)
       \/ do_download_move(t)
       \/ do_download_return(t)
       \/ after_download(t)

\* return_cached_or_download calls that download, their workers, and
\* shutdown
NextShutdown ==
    \/ \E t \in Requests, p \in Paths :
          return_cached_or_download(t, p, FALSE, TRUE)
    \/ \E t \in Requests : do_download_claim(t)
    \/ \E t \in Requests : do_download_poll(t)
    \/ \E t \in Requests : do_download_fetch(t)
    \/ \E t \in Requests : do_download_connection_error(t)
    \/ \E t \in Requests : do_download_other_error(t)
    \/ \E t \in Requests : do_download_move(t)
    \/ \E t \in Requests : do_download_return(t)
    \/ \E t \in Requests : after_download(t)
    \/ shutdown_start
    \/ shutdown_join
    \/ shutdown_save

\* no file is in the cache when the downloads start
InitShutdownSpec == NoDownloads /\ InitStore /\ InitRest

ShutdownSpec == InitShutdownSpec /\ [][NextShutdown]_vars

\* the executor runs every submitted do_download, download_fn returns or
\* raises, and the thread in shutdown goes on when it can
FairShutdownSpec ==
    InitShutdownSpec /\ [][NextShutdown]_vars
       /\ WF_vars(do_download) /\ WF_vars(shutdown_join \/ shutdown_save)

(***************************************************************************)
(* Result: from_data and from_server with any before_download,             *)
(* after_download and on_cancel, result, add_done_callback and cancel.     *)
(* before is what the before_download given does ("none" when there is     *)
(* none), before_thread the thread that called it; after_thread and        *)
(* fn_thread are the threads that called after_download and the callback   *)
(* given to add_done_callback.                                             *)
(***************************************************************************)
BeforeDownloads == {"none", "returns", "raises"}

\* the data of a Result made by from_data: None, or anything else
Datas == {"None", "data"}

\* Future.done(): finished with a value or an exception, or cancelled
Done(x) == x.pc \in {"finished", "failed", "cancelled"}

\* Result.result: the data if it is not None, else the result of the
\* future, which blocks until the future is done and raises what the
\* future raised; without data and future an Exception is raised
Result_result(x) ==
    IF x.data # "None" THEN x.data
    ELSE IF x.pc = "data" THEN "Exception"
    ELSE CASE x.pc = "finished" -> x.value
           [] x.pc = "failed" -> "raises"
           [] x.pc = "cancelled" -> "CancelledError"
           [] OTHER -> "blocks"

\* Result.from_data: a Result with data and no future
from_data(r, data) ==
    /\ results[r].pc = "idle"
    /\ results' = [results EXCEPT ![r] = [@ EXCEPT !.pc = "data",
                                                   !.data = data,
                                                   !.made = "returned"]]
    /\ UNCHANGED <<dlVars, storeVars, cover_art, ranking, album_list, poolVars>>

\* Result.from_server on the calling thread, up to the assignment of
\* on_cancel: future_fn is submitted to the executor.  Without an
\* after_download the Result is returned, with one the done callback is
\* still to be added
from_server(r, before_download, has_after, has_on_cancel) ==
    /\ results[r].pc = "idle"
    /\ results' = [results EXCEPT ![r] = [@ EXCEPT
                      !.pc = "pending",
                      !.before = before_download,
                      !.after = has_after,
                      !.on_cancel = has_on_cancel,
                      !.made = IF has_after THEN "submitted" ELSE "returned"]]
    /\ UNCHANGED <<dlVars, storeVars, cover_art, ranking, album_list, poolVars>>

\* Result.from_server on the calling thread, the rest: the done callback
\* for after_download is added to the future, which calls it at once, on
\* this thread, when the future is done already; the Result is returned
from_server_add_done_callback(r) ==
    /\ results[r].made = "submitted"
    /\ results' = [results EXCEPT ![r] = [@ EXCEPT
                      !.made = "returned",
                      !.done_callbacks = IF Done(results[r]) THEN @
                                         ELSE @ \cup {"after"},
                      !.after_called = @ \/ results[r].pc = "finished",
                      !.after_thread = IF results[r].pc = "finished"
                                       THEN "calling" ELSE @]]
    /\ UNCHANGED <<dlVars, storeVars, cover_art, ranking, album_list, poolVars>>

\* a future_fn that goes on to download_fn when before_download raises
from_server_future_fn_goes_on(r) ==
    /\ results[r].pc = "pending"
    /\ results' = [results EXCEPT ![r] = [@ EXCEPT
                      !.pc = "downloading",
                      !.before_thread = IF @ = "none" /\ results[r].before # "none"
                                        THEN "worker" ELSE @,
                      !.download_called = TRUE]]
    /\ UNCHANGED <<dlVars, storeVars, cover_art, ranking, album_list, poolVars>>

\* future_fn on a worker: before_download() if there is one, then
\* download_fn() is entered; if before_download raises, so does the future
from_server_future_fn(r) ==
    /\ results[r].pc = "pending"
    /\ CASE results[r].before = "none" ->
              results' = [results EXCEPT ![r] = [@ EXCEPT !.pc = "downloading",
                                                          !.download_called = TRUE]]
         [] results[r].before = "returns" ->
              results' = [results EXCEPT ![r] = [@ EXCEPT !.pc = "downloading",
                                                          !.before_thread = "worker",
                                                          !.download_called = TRUE]]
         [] results[r].before = "raises" ->
              results' = [results EXCEPT ![r] = [@ EXCEPT !.pc = "failed",
                                                          !.before_thread = "worker"]]
    /\ UNCHANGED <<dlVars, storeVars, cover_art, ranking, album_list, poolVars>>

\* future_fn: download_fn returns and the future is finished with its value
from_server_download_fn(r) ==
    /\ results[r].pc = "downloading"
    /\ results' = [results EXCEPT ![r] = [@ EXCEPT !.pc = "finished",
                                                   !.value = "value"]]
    /\ UNCHANGED <<dlVars, storeVars, cover_art, ranking, album_list, poolVars>>

\* future_fn: download_fn raises and the future is finished with the
\* exception
from_server_download_fn_raises(r) ==
    /\ results[r].pc = "downloading"
    /\ results' = [results EXCEPT ![r].pc = "failed"]
    /\ UNCHANGED <<dlVars, storeVars, cover_art, ranking, album_list, poolVars>>

\* the worker that finished the future calls the done callbacks the future
\* holds: after_download(f.result()), where f.result() raises what the
\* future raised, and the callback given to add_done_callback
from_server_done_callback(r) ==
    /\ results[r].pc \in {"finished", "failed"}
    /\ results[r].done_callbacks # {}
    /\ LET x == results[r]
           with_after == "after" \in x.done_callbacks /\ x.pc = "finished"
           with_fn == "fn" \in x.done_callbacks
       IN results' = [results EXCEPT ![r] = [@ EXCEPT
                         !.done_callbacks = {},
                         !.after_called = @ \/ with_after,
                         !.after_thread = IF with_after THEN "worker" ELSE @,
                         !.fn_calls = IF with_fn THEN @ + 1 ELSE @,
                         !.fn_thread = IF with_fn THEN "worker" ELSE @]]
    /\ UNCHANGED <<dlVars, storeVars, cover_art, ranking, album_list, poolVars>>

\* an add_done_callback that calls fn at once whatever the Result is
add_done_callback_at_once(r, has_args) ==
    /\ results[r].made = "returned"
    /\ results[r].fn = "none"
    /\ results' = [results EXCEPT ![r] = [@ EXCEPT
                      !.fn = "called",
                      !.fn_calls = @ + 1,
                      !.fn_thread = "calling",
                      !.fn_early = results[r].pc # "data" /\ ~Done(results[r])]]
    /\ UNCHANGED <<dlVars, storeVars, cover_art, ranking, album_list, poolVars>>

\* Result.add_done_callback(fn, *args) of a returned Result.  Without a
\* future fn(self, *args) is called at once.  With one, fn and args go to
\* Future.add_done_callback, which takes fn alone and raises TypeError for
\* more, calls fn at once on this thread if the future is done, and else
\* holds fn for the thread that finishes or cancels the future
add_done_callback(r, has_args) ==
    /\ results[r].made = "returned"
    /\ results[r].fn = "none"
    /\ LET x == results[r]
       IN results' = [results EXCEPT ![r] =
             IF x.pc = "data" \/ (~has_args /\ Done(x))
             THEN [x EXCEPT !.fn = "called", !.fn_calls = @ + 1,
                            !.fn_thread = "calling"]
             ELSE IF has_args
             THEN [x EXCEPT !.fn = "TypeError"]
             ELSE [x EXCEPT !.fn = "held",
                            !.done_callbacks = @ \cup {"fn"}]]
    /\ UNCHANGED <<dlVars, storeVars, cover_art, ranking, album_list, poolVars>>

\* a cancel() that returns False for a Result without a future
cancel_returns_false_without_future(x) == x.pc \in {"pending", "cancelled"}

\* Result.cancel, the value returned: Future.cancel() is True for a future
\* that is pending or cancelled already and False for one that is running
\* or finished; True without a future
cancel_returns(x) ==
    IF x.pc = "data" THEN TRUE ELSE x.pc \in {"pending", "cancelled"}

\* Result.cancel of a returned Result: on_cancel() if there is one, then
\* Future.cancel(), which cancels a pending future and calls the done
\* callbacks it holds on this thread; after_download is not called, for
\* f.result() raises CancelledError
cancel(r) ==
    /\ results[r].made = "returned"
    /\ LET x == results[r]
           with_fn == x.pc = "pending" /\ "fn" \in x.done_callbacks
       IN results' = [results EXCEPT ![r] = [@ EXCEPT
                         !.on_cancel_called = @ \/ x.on_cancel,
                         !.last_cancel = [at |-> x.pc,
                                          returned |-> cancel_returns(x)],
                         !.pc = IF @ = "pending" THEN "cancelled" ELSE @,
                         !.done_callbacks = IF x.pc = "pending" THEN {} ELSE @,
                         !.fn_calls = IF with_fn THEN @ + 1 ELSE @,
                         !.fn_thread = IF with_fn THEN "calling" ELSE @]]
    /\ UNCHANGED <<dlVars, storeVars, cover_art, ranking, album_list, poolVars>>

\* from_server with any before_download and after_download, and the worker
NextResult ==
    \/ \E r \in ResultIds, before_download \in BeforeDownloads, has_after \in BOOLEAN :
          from_server(r, before_download, has_after, FALSE)
    \/ \E r \in ResultIds : from_server_add_done_callback(r)
    \/ \E r \in ResultIds : from_server_future_fn(r)
    \/ \E r \in ResultIds : from_server_download_fn(r)
    \/ \E r \in ResultIds : from_server_download_fn_raises(r)
    \/ \E r \in ResultIds : from_server_done_callback(r)

InitResultSpec == NoDownloads /\ InitStore /\ InitRest

ResultSpec == InitResultSpec /\ [][NextResult]_vars

\* Results of either kind, with and without on_cancel, cancelled at any
\* time after they are returned
NextCancel ==
    \/ \E r \in ResultIds, data \in Datas : from_data(r, data)
    \/ \E r \in ResultIds, has_on_cancel \in BOOLEAN :
          from_server(r, "none", FALSE, has_on_cancel)
    \/ \E r \in ResultIds : from_server_future_fn(r)
    \/ \E r \in ResultIds : from_server_download_fn(r)
    \/ \E r \in ResultIds : from_server_download_fn_raises(r)
    \/ \E r \in ResultIds : cancel(r)

CancelSpec == InitResultSpec /\ [][NextCancel]_vars

\* Results of either kind with a callback added at any time after they are
\* returned, and cancelled at any time
NextCallback ==
    \/ \E r \in ResultIds : from_data(r, "data")
    \/ \E r \in ResultIds : from_server(r, "none", FALSE, FALSE)
    \/ \E r \in ResultIds : from_server_future_fn(r)
    \/ \E r \in ResultIds : from_server_download_fn(r)
    \/ \E r \in ResultIds : from_server_download_fn_raises(r)
    \/ \E r \in ResultIds : from_server_done_callback(r)
    \/ \E r \in ResultIds, has_args \in BOOLEAN : add_done_callback(r, has_args)
    \/ \E r \in ResultIds : cancel(r)

\* the workers of the Results: future_fn from its start to the done
\* callbacks
Result_worker ==
    \E r \in ResultIds :
       \/ from_server_future_fn(r)
       \/ from_server_download_fn(r)
       \/ from_server_download_fn_raises(r)
       \/ from_server_done_callback(r)

CallbackSpec == InitResultSpec /\ [][NextCallback]_vars

\* the executor runs every submitted future_fn, download_fn returns or
\* raises, and the done callbacks are called
FairCallbackSpec ==
    InitResultSpec /\ [][NextCallback]_vars /\ WF_vars(Result_worker)

(***************************************************************************)
(* SearchResult._to_result, the ranked view of a result set.  The          *)
(* candidates are given in the order the set is iterated, each as the      *)
(* similarity_ratio of the query and its transformed text; a candidate is  *)
(* named by its place in that order.                                       *)
(***************************************************************************)
\* the largest number of candidates of a view
MaxCandidates == 21

\* values of fuzz.partial_ratio, around the bound the view compares with
Ratios == {60, 61, 100}

\* n times the ratio r
Repeat(r, n) == [i \in 1..n |-> r]

\* the candidate sets: up to three runs of equal ratios, in any order
CandidateLists ==
    {Repeat(p[1], n[1]) \o Repeat(p[2], n[2]) \o Repeat(p[3], n[3]) :
        p \in [1..3 -> Ratios],
        n \in {m \in [1..3 -> 0..MaxCandidates] : m[1] + m[2] + m[3] <= MaxCandidates}}

\* the place of rx in a list sorted by falling ratio: behind every item of
\* a higher ratio, before the items it is equal to (the sort is stable)
InsertByRatio(rx, sorted_part) ==
    LET k == Cardinality({i \in DOMAIN sorted_part : sorted_part[i].ratio > rx.ratio})
    IN SubSeq(sorted_part, 1, k) \o <<rx>> \o SubSeq(sorted_part, k + 1, Len(sorted_part))

RECURSIVE sorted(_)
\* sorted(..., key=lambda rx: rx[0], reverse=True)
sorted(rxs) ==
    IF rxs = <<>> THEN <<>> ELSE InsertByRatio(Head(rxs), sorted(Tail(rxs)))

RECURSIVE to_result_loop(_, _)
\* the loop over all_results: append while the ratio is above 60 and the
\* result is shorter than 20, and stop at the first item that fails
to_result_loop(all_results, result) ==
    IF all_results = <<>> THEN result
    ELSE LET rx == Head(all_results)
         IN IF rx.ratio > 60 /\ Len(result) < 20
            THEN to_result_loop(Tail(all_results), Append(result, rx.x))
            ELSE result

\* a view whose loop stops one item later
to_result_one_more(it) ==
    LET all_results == sorted([x \in DOMAIN it |-> [ratio |-> it[x], x |-> x]])
        kept == to_result_loop(all_results, <<>>)
    IN IF Len(kept) < Len(all_results)
       THEN Append(kept, all_results[Len(kept) + 1].x) ELSE kept

\* SearchResult._to_result(it, transform)
to_result(it) ==
    to_result_loop(sorted([x \in DOMAIN it |-> [ratio |-> it[x], x |-> x]]), <<>>)

\* a view (artist, album, song or playlist) is read
read_view ==
    /\ ranking.pc = "idle"
    /\ ranking' = [ranking EXCEPT !.pc = "done", !.result = to_result(ranking.it)]
    /\ UNCHANGED <<dlVars, storeVars, cover_art, album_list, results, poolVars>>

InitRankingSpec ==
    /\ NoDownloads
    /\ InitStore
    /\ cover_art = NoFiles
    /\ ranking \in {[IdleRanking EXCEPT !.it = it] : it \in CandidateLists}
    /\ album_list = IdleAlbumList
    /\ results = [r \in ResultIds |-> IdleResult]
    /\ InitPool

NextRanking == read_view

RankingSpec == InitRankingSpec /\ [][NextRanking]_vars

(***************************************************************************)
(* One search on a store loaded from a snapshot, with every answer of the  *)
(* server and a cancel at any point.                                       *)
(***************************************************************************)
\* stores with the artists an earlier get_artists saved
ArtistStores ==
    {[LoadedCache(NoFile, EmptyDict) EXCEPT !["artists"] = a] : a \in ArtistLists}

InitQuerySpec ==
    /\ NoDownloads
    /\ InitRest
    /\ \E s \in ArtistStores :
          /\ cache_meta_file = WriteAtStart(Truncated, json_dumps(s))
          /\ cache = LoadedCache(WriteAtStart(Truncated, json_dumps(s)), EmptyDict)
    /\ cache_lock = 0
    /\ call = [c \in Calls |-> IdleCall]
    /\ server_calls = 0
    /\ instance = 1
    /\ search = IdleSearch

\* the steps of the worker that runs do_search
do_search ==
    \/ do_search_start
    \/ do_search_local
    \/ do_search_local_callback
    \/ do_search_server
    \/ \E raises \in BOOLEAN, a \in SearchAnswers : do_search_finally(raises, a)

NextQuery ==
    \/ \E e \in BOOLEAN : search_call(e)
    \/ do_search
    \/ search_cancel

QuerySpec == InitQuerySpec /\ [][NextQuery]_vars

\* the executor runs a submitted do_search, its sleeps end, and search3
\* returns or raises
FairQuerySpec == InitQuerySpec /\ [][NextQuery]_vars /\ WF_vars(do_search)

(***************************************************************************)
(* get_artist_artwork on the executor.  The executor has max_workers       *)
(* threads, here MaxWorkers, which take the submitted tasks from its work   *)
(* queue in the order they were submitted; a task holds its thread until it *)
(* ends.  The artists of the calls have different image URLs.              *)
(***************************************************************************)
\* the threads of the executor, in place of max_workers=50
MaxWorkers == 2

\* the tasks that hold a thread of the executor
BusyWorkers ==
    Cardinality({k \in ArtworkCalls : artwork[k].info = "running"})
    + Cardinality({k \in ArtworkCalls :
                     artwork[k].outer \in {"wait_info", "wait_download"}})
    + Cardinality({k \in ArtworkCalls : artwork[k].download = "running"})

\* executor.submit of the tasks given, in that order
submit(tasks) == [executor EXCEPT !.work_queue = @ \o tasks]

\* get_artist_artwork on the calling thread.  get_artist_info returns a
\* future when the artist's info is not in the cache, and then download_fn
\* is submitted after it; with the info of the cache do_get_artist_artwork
\* is called here, and return_cached_or_download submits do_download
get_artist_artwork(k, info_cached) ==
    /\ artwork[k] = IdleArtwork
    /\ ~executor.shutdown
    /\ IF info_cached
       THEN /\ artwork' = [artwork EXCEPT ![k].download = "queued"]
            /\ executor' = submit(<<[k |-> k, task |-> "download"]>>)
       ELSE /\ artwork' = [artwork EXCEPT ![k].info = "queued",
                                          ![k].outer = "queued"]
            /\ executor' = submit(<<[k |-> k, task |-> "info"],
                                    [k |-> k, task |-> "outer"]>>)
    /\ UNCHANGED <<dlVars, storeVars, cover_art, ranking, album_list, results,
                   should_exit, shutdown_call>>

\* a thread of the executor that has no task takes the first of the queue;
\* download_fn starts with artist_info.result()
worker_take ==
    /\ executor.work_queue # <<>>
    /\ BusyWorkers < MaxWorkers
    /\ LET w == Head(executor.work_queue)
       IN artwork' = [artwork EXCEPT ![w.k] =
             CASE w.task = "info" -> [@ EXCEPT !.info = "running"]
               [] w.task = "outer" -> [@ EXCEPT !.outer = "wait_info"]
               [] w.task = "download" -> [@ EXCEPT !.download = "running"]]
    /\ executor' = [executor EXCEPT !.work_queue = Tail(@)]
    /\ UNCHANGED <<dlVars, storeVars, cover_art, ranking, album_list, results,
                   should_exit, shutdown_call>>

\* the task of get_artist_info ends: the fetch returned, and after_download
\* ran, or it raised
get_artist_info_ends(k, raises) ==
    /\ artwork[k].info = "running"
    /\ artwork' = [artwork EXCEPT ![k].info = IF raises THEN "failed" ELSE "done"]
    /\ UNCHANGED <<dlVars, storeVars, cover_art, ranking, album_list, results,
                   should_exit, executor, shutdown_call>>

\* download_fn: artist_info.result() returns or raises.  With the info
\* do_get_artist_artwork is called: without an image URL it returns a
\* Result with data and download_fn ends, else return_cached_or_download
\* submits do_download and download_fn waits in result() of that Result
download_fn_info(k, has_url) ==
    /\ artwork[k].outer = "wait_info"
    /\ artwork[k].info \in {"done", "failed"}
    /\ IF artwork[k].info = "failed"
       THEN /\ artwork' = [artwork EXCEPT ![k].outer = "failed"]
            /\ UNCHANGED executor
       ELSE IF ~has_url
       THEN /\ artwork' = [artwork EXCEPT ![k].outer = "done"]
            /\ UNCHANGED executor
       ELSE /\ artwork' = [artwork EXCEPT ![k].outer = "wait_download",
                                          ![k].download = "queued"]
            /\ executor' = submit(<<[k |-> k, task |-> "download"]>>)
    /\ UNCHANGED <<dlVars, storeVars, cover_art, ranking, album_list, results,
                   should_exit, shutdown_call>>

\* the task of do_download ends
do_download_ends(k) ==
    /\ artwork[k].download = "running"
    /\ artwork' = [artwork EXCEPT ![k].download = "done"]
    /\ UNCHANGED <<dlVars, storeVars, cover_art, ranking, album_list, results,
                   should_exit, executor, shutdown_call>>

\* download_fn: result() of the Result of do_download returns
download_fn_ends(k) ==
    /\ artwork[k].outer = "wait_download"
    /\ artwork[k].download = "done"
    /\ artwork' = [artwork EXCEPT ![k].outer = "done"]
    /\ UNCHANGED <<dlVars, storeVars, cover_art, ranking, album_list, results,
                   should_exit, executor, shutdown_call>>

\* the steps of the threads of the executor
artwork_workers ==
    \/ worker_take
    \/ \E k \in ArtworkCalls, raises \in BOOLEAN : get_artist_info_ends(k, raises)
    \/ \E k \in ArtworkCalls, has_url \in BOOLEAN : download_fn_info(k, has_url)
    \/ \E k \in ArtworkCalls : do_download_ends(k)
    \/ \E k \in ArtworkCalls : download_fn_ends(k)

NextArtwork ==
    \/ \E k \in ArtworkCalls, info_cached \in BOOLEAN :
          get_artist_artwork(k, info_cached)
    \/ artwork_workers

InitArtworkSpec == NoDownloads /\ InitStore /\ InitRest

ArtworkSpec == InitArtworkSpec /\ [][NextArtwork]_vars

\* a thread without a task takes the next one, every fetch and download
\* returns or raises, and a result() returns once its future is done
FairArtworkSpec ==
    InitArtworkSpec /\ [][NextArtwork]_vars /\ WF_vars(artwork_workers)

(***************************************************************************)
(* The download manager's claims.                                          *)
(***************************************************************************)
Downloading(p) == {t \in Requests : dl[t].pc = "downloading" /\ dl[t].path = p}

\* the requests made for path p so far
RequestsFor(p) == {t \in Requests : dl[t].pc # "idle" /\ dl[t].path = p}

\* positions of a worker that holds or may still touch the registry
Quiet == {"idle", "immediate", "queued", "poll", "failed", "done"}

\* C1: for every path, at most one worker at a time is executing the
\* physical download (download_fn and the write to the staging path).
C1_OneDownloadPerPath ==
    \A p \in Paths : Cardinality(Downloading(p)) <= 1

\* C2: when two or more callers request the same path while it is not yet
\* cached, none with force, and no download fails, then once all of them are
\* finished download_fn was invoked exactly once and every Result is the
\* same final cache path.
C2_FetchedExactlyOnce ==
    \A p \in Paths :
        ( /\ Cardinality(RequestsFor(p)) >= 2
          /\ \A t \in RequestsFor(p) :
                /\ ~dl[t].force
                /\ dl[t].pc = "done"
                /\ dl[t].fetch \in {"none", "ok"} )
        => /\ fetch_count[p] = 1
           /\ \A t \in RequestsFor(p) : dl[t].result = p

\* C3: every key put into current_downloads is removed again, whatever way
\* the fetch ends, so a polling requester leaves its loop: when no worker is
\* left between its claim and the end of its callbacks (the only workers
\* that remove keys), the registry is empty.
C3_RegistryDrains ==
    (\A t \in Requests : dl[t].pc \in Quiet) => current_downloads = {}

\* C4: when download_fn of the claiming caller fails with a transport
\* failure, the key is removed from the registry by that step, and when its
\* future finishes the Result is a failed one (result() raises).
C4_TransportFailureRaises ==
    [][\A t \in Requests :
        /\ (dl[t].pc = "downloading" /\ dl'[t].fetch = "connection_error")
              => dl[t].path \notin current_downloads'
        /\ (dl[t].fetch = "connection_error" /\ dl[t].result = Unresolved
               /\ dl'[t].result # Unresolved)
              => dl'[t].result = Raised]_vars

\* C5: whenever a Result of return_cached_or_download resolves to a path,
\* the file exists at that path.
C5_ResolvedPathExists ==
    \A t \in Requests : dl[t].result \in Paths => path_exists[dl[t].result]

\* C6: the number of physical downloads executing at once, over all paths,
\* never exceeds concurrent_download_limit.
C6_DownloadLimit ==
    Cardinality({t \in Requests : dl[t].pc = "downloading"})
        <= concurrent_download_limit

(***************************************************************************)
(* The cache store's claims.                                               *)
(***************************************************************************)
\* C7: from a cold cache, once the pending Result of a get_artists() has
\* resolved, every get_artists() call made afterwards without force returns
\* an immediate Result (and so does not contact the server).
C7_SecondCallImmediate ==
    [][\A c \in Calls :
        ( /\ call[c].pc = "idle"
          /\ call'[c].op = "get_artists"
          /\ ~call'[c].force
          /\ \E d \in Calls : call[d].op = "get_artists" /\ call[d].pc \in Resolved )
        => call'[c].pc = "immediate"]_vars
\* the categories the accessors by id look up
IdCategories == {cache_name(op) : op \in IdOps}

\* the snapshot file holds exactly json.dumps of the store c
SavedIs(file, c) == Parses(file) /\ file.text[1] = json_dumps(c)

\* C8: save_cache_info followed by load_cache_info keeps every populated
\* category: a load of the file that holds the saved store leaves every id
\* that was a cache hit a cache hit, for the same entity.
C8_SaveLoadKeepsHits ==
    [][(instance' # instance /\ SavedIs(cache_meta_file, cache))
        => \A name \in IdCategories, i \in Ids :
              CacheHit(cache, name, i)
              => /\ CacheHit(cache', name, i)
                 /\ cache'[name][IntKey(i)] = cache[name][IntKey(i)]]_vars

\* C9: every change of the in-memory store is made by a thread that holds
\* cache_lock, the lock save_cache_info holds while it serializes.
C9_MutationUnderLock ==
    [][cache' # cache
        => \E c \in Calls : /\ cache_lock = c
                            /\ call[c].pc \in {"merge", "merge_songs"}
                            /\ call'[c] # call[c]]_vars

\* positions of a call with no merge and no save ahead of it
Finished == {"idle", "immediate", "failed", "done"}

\* C10: once every save_cache_info that followed a merge has finished, the
\* snapshot file is one complete serialization, and it is that of the
\* in-memory store.
C10_SnapshotIsStore ==
    ( /\ \A c \in Calls : call[c].pc \in Finished
      /\ \E c \in Calls : call[c].pc = "done" )
    => SavedIs(cache_meta_file, cache)

(***************************************************************************)
(* The claims about load_cache_info: the migration and the version.        *)
(***************************************************************************)
\* the step is a load_cache_info, run by reset
IsLoad == instance' = instance + 1

\* the version of the snapshot file as load_cache_info reads it
StoredVersion == cache_version(ReadMeta(cache_meta_file))

\* C11: a load of a version-0 snapshot keeps every "<id>_1000" image under
\* the name "<id>", deletes every "<id>_<other size>" file, and leaves the
\* version at 1
C11_MigrationRenames ==
    [][(IsLoad /\ StoredVersion < 1) =>
          /\ \A i \in ArtIds :
                SizedName(i, 1000) \in DOMAIN cover_art =>
                   /\ PlainName(i) \in DOMAIN cover_art'
                   /\ cover_art'[PlainName(i)] = cover_art[SizedName(i, 1000)]
          /\ \A n \in DOMAIN cover_art :
                (n.kind = "sized" /\ n.dimensions # 1000) => n \notin DOMAIN cover_art'
          /\ cache'["version"] = 1]_vars

\* C12: a load of a snapshot whose version is below 1 that follows an
\* earlier load of the same snapshot changes neither the files of
\* cover_art/ nor the snapshot file: migrating twice is migrating once
C12_MigrationIdempotent ==
    [][(IsLoad /\ instance >= 1 /\ StoredVersion < 1) =>
          /\ cover_art' = cover_art
          /\ cache_meta_file' = cache_meta_file]_vars

\* two loads of a snapshot below version 1, the first of which moved a file
C12_Witness ==
    /\ instance = 2
    /\ StoredVersion < 1
    /\ BracesName \in DOMAIN cover_art

\* C13: the version never decreases: after a load the store's version, and
\* the version a save would write, is at least the stored version v, also
\* for v above 1; and the migration touches the files only when v < 1
C13_VersionNeverDecreases ==
    [][IsLoad =>
          /\ cache'["version"] >= StoredVersion
          /\ json_dumps(cache')["version"] >= StoredVersion
          /\ (cover_art' # cover_art => StoredVersion < 1)]_vars

\* the empty container of a shape
EmptyOf(shape) == IF shape = "list" THEN <<>> ELSE EmptyDict

FinalCallbacks == Cardinality({i \in DOMAIN search.callbacks : search.callbacks[i]})

\* C15: once cancel() was called on the Result of a search, search_callback
\* is not called again, wherever do_search was: not started, in a sleep,
\* collecting the local results, or in the call of search3
C15_NoCallbackAfterCancel ==
    [][search.cancelled => search'.callbacks = search.callbacks]_vars

\* C16: a search with a query that is not empty and that is not cancelled
\* calls search_callback with final = True in the end, and no search calls
\* it so more than once, whether search3 returns or raises
C16_FinalExactlyOnce ==
    /\ [](FinalCallbacks <= 1)
    /\ (search.pc = "queued") ~> (search.cancelled \/ FinalCallbacks = 1)
    /\ [](search.pc = "done" /\ ~search.cancelled => FinalCallbacks = 1)

\* an uncancelled search whose search3 raised made its final callback
C16_Witness ==
    /\ search.pc = "done"
    /\ ~search.cancelled
    /\ search.failed
    /\ search.callbacks = <<FALSE, TRUE>>

(***************************************************************************)
(* The claim about the ranked view.                                        *)
(***************************************************************************)
\* the candidates that score above 60
Qualifying == {x \in DOMAIN ranking.it : ranking.it[x] > 60}

\* C17: a view holds at most 20 items, each scores above 60, they are in
\* falling order of score, and they are the first 20 of the candidates above
\* 60: each once, all of them when there are at most 20, and no candidate
\* left out scores higher than one that is in
C17_RankedView ==
    ranking.pc = "done" =>
       LET result == ranking.result
           score(i) == ranking.it[result[i]]
           kept == {result[i] : i \in DOMAIN result}
       IN /\ Len(result) <= 20
          /\ \A i \in DOMAIN result : score(i) > 60
          /\ \A i, j \in DOMAIN result : i < j => score(i) >= score(j)
          /\ kept \subseteq Qualifying
          /\ Cardinality(kept) = Len(result)
          /\ Len(result) = IF Cardinality(Qualifying) < 20
                            THEN Cardinality(Qualifying) ELSE 20
          /\ \A x \in Qualifying \ kept, i \in DOMAIN result :
                ranking.it[x] <= score(i)

\* a view of 21 candidates above 60, not given in order, was cut to 20
C17_Witness ==
    /\ ranking.pc = "done"
    /\ Cardinality(Qualifying) > 20
    /\ \E x, y \in Qualifying : x < y /\ ranking.it[x] < ranking.it[y]
    /\ Len(ranking.result) = 20

(***************************************************************************)
(* The claims about get_album_list.                                        *)
(***************************************************************************)
\* do_get_album_list returned albums
Returned == album_list.pc = "returned"

\* the server's list of the type
ServerAlbums == [i \in 1..album_list.total |-> Entity(i, None, <<>>)]

\* C18: get_album_list asks for pages of size p (40 for "random", else 500)
\* at the offsets 0, p, 2p, ..., each once, stops at the first page shorter
\* than p, and returns the pages joined: the server's list, each album once
\* and in order
C18_PagesOnceInOrder ==
    Returned =>
       LET p == IF album_list.type_ = "random" THEN 40 ELSE 500
           requests == album_list.requests
       IN /\ \A i \in DOMAIN requests :
                requests[i] = [offset |-> (i - 1) * p, size |-> p]
          /\ Len(requests) = (album_list.total \div p) + 1
          /\ album_list.albums = ServerAlbums

C20_BeforeDownloadOnCaller ==
    \A r \in ResultIds :
       (results[r].pc # "idle" /\ results[r].before # "none") =>
          /\ results[r].before_thread = "calling"
          /\ results[r].before # "raises"

\* C20, amended: before_download is called by the worker that runs the
\* submitted future_fn, never by the calling thread, and before download_fn;
\* when it raises, download_fn and after_download are not called and the
\* future, and so result(), fails
C20_BeforeDownloadOnWorker ==
    \A r \in ResultIds :
       LET x == results[r]
       IN /\ x.before_thread \in {"none", "worker"}
          /\ x.pc \in {"idle", "pending"} => x.before_thread = "none"
          /\ x.download_called =>
                x.before = "none" \/ (x.before = "returns" /\ x.before_thread = "worker")
          /\ (x.before = "raises" /\ x.pc \notin {"idle", "pending"}) =>
                /\ x.pc = "failed"
                /\ x.before_thread = "worker"
                /\ ~x.download_called
                /\ ~x.after_called

\* a Result was made with a before_download that raised on the worker
C20_Witness ==
    \E r \in ResultIds :
       /\ results[r].before = "raises"
       /\ results[r].after
       /\ results[r].pc = "failed"
       /\ results[r].before_thread = "worker"

(***************************************************************************)
(* The claims about Result.cancel and Result.add_done_callback.            *)
(***************************************************************************)
\* C21 as stated: cancel() returns true only when the scheduled work was
\* prevented from running; for a Result that is running or resolved, an
\* immediate Result among them, it returns false
C21_CancelTrueOnlyIfPrevented ==
    \A r \in ResultIds :
       LET c == results[r].last_cancel
       IN c.at # "none" => (c.returned <=> c.at \in {"pending", "cancelled"})

\* C21, amended: cancel() calls on_cancel if there is one, whatever the
\* state of the Result.  For a Result with a future it returns true exactly
\* when the future was pending or cancelled already, and then download_fn
\* is never called; it returns false for a future that is running or
\* finished.  For an immediate Result it returns true.  No step, cancel
\* among them, changes what result() returns for a resolved Result
C21_CancelReturnsFutureCancel ==
    /\ [](\A r \in ResultIds :
            LET x == results[r]
                c == x.last_cancel
            IN c.at # "none" =>
                  /\ c.returned <=> c.at \in {"data", "pending", "cancelled"}
                  /\ x.on_cancel => x.on_cancel_called
                  /\ c.at \in {"pending", "cancelled"} =>
                        x.pc = "cancelled" /\ ~x.download_called
                  /\ c.at = "data" => x.pc = "data")
    /\ [][\A r \in ResultIds :
            (results[r].pc = "data" \/ Done(results[r])) =>
               Result_result(results'[r]) = Result_result(results[r])]_vars

\* an immediate Result was cancelled and cancel() returned true, and a
\* Result with an on_cancel was cancelled after its future finished:
\* on_cancel was called, cancel() returned false and result() is the value
C21_Witness ==
    /\ \E r \in ResultIds :
          /\ results[r].last_cancel = [at |-> "data", returned |-> TRUE]
          /\ Result_result(results[r]) = "data"
    /\ \E r \in ResultIds :
          /\ results[r].last_cancel = [at |-> "finished", returned |-> FALSE]
          /\ results[r].on_cancel_called
          /\ Result_result(results[r]) = "value"

\* C22: a callback given to add_done_callback is called exactly once.  For a
\* Result that is resolved when it is given (an immediate one, or one whose
\* future is done) it is called during add_done_callback, on the calling
\* thread; for a pending Result it is held, never called before the future
\* is done, and called once when it is
C22_CallbackExactlyOnce ==
    /\ [](\A r \in ResultIds :
            LET x == results[r]
            IN /\ x.fn_calls <= 1
               /\ ~x.fn_early
               /\ x.fn_calls = 1 => (x.pc = "data" \/ Done(x))
               /\ x.fn = "called" => (x.fn_calls = 1 /\ x.fn_thread = "calling")
               /\ x.fn \in {"none", "TypeError"} => x.fn_calls = 0
               /\ (x.fn = "held" /\ Done(x) /\ "fn" \notin x.done_callbacks) =>
                     x.fn_calls = 1)
    /\ [][\A r \in ResultIds :
            (results[r].fn = "none" /\ results'[r].fn \in {"called", "held"}) =>
               IF results[r].pc = "data" \/ Done(results[r])
               THEN results'[r].fn = "called" /\ results'[r].fn_calls = 1
               ELSE results'[r].fn = "held" /\ results'[r].fn_calls = 0]_vars
    /\ \A r \in ResultIds :
          (results[r].fn = "held") ~> (results[r].fn_calls = 1)

\* a callback given to a pending Result was called by the worker once the
\* future was finished, and one given to an immediate Result was called
\* during add_done_callback
C22_Witness ==
    /\ \E r \in ResultIds :
          /\ results[r].fn = "held"
          /\ results[r].pc = "finished"
          /\ results[r].fn_calls = 1
          /\ results[r].fn_thread = "worker"
    /\ \E r \in ResultIds :
          /\ results[r].fn = "called"
          /\ results[r].pc = "data"

(***************************************************************************)
(* The claim about the thread that runs after_download.                    *)
(***************************************************************************)
\* C25: the calling thread of an accessor never runs the fetch, the merge
\* or the snapshot write itself; download_fn and after_download, which
\* merges and saves, run on a worker under every interleaving
C25_AfterDownloadOnWorker ==
    \A r \in ResultIds :
       results[r].after_called => results[r].after_thread = "worker"

(***************************************************************************)
(* The claim about reset with downloads in flight.                         *)
(***************************************************************************)
\* return_cached_or_download and its workers, and reset at any time
NextReset ==
    \/ NextDownload
    \/ reset

ResetSpec == InitDownloadSpec /\ [][NextReset]_vars

\* C24: after reset the registry of downloads is empty and the store holds
\* only what load_cache_info read from the snapshot, whatever the instance
\* before it held and whatever downloads are in flight
C24_FreshStoreAndRegistry ==
    [][instance' # instance =>
          /\ current_downloads' = {}
          /\ cache' = LoadedCache(cache_meta_file, <<>>)]_vars

(***************************************************************************)
(* The claim about CacheManager.shutdown.                                  *)
(***************************************************************************)
\* C23: shutdown() returns in the end whatever downloads and waiters of the
\* registry are in flight when it is called; once it has returned no task
\* is queued or running, the executor takes no new work, and the snapshot
\* file holds the store
C23_ShutdownReturns ==
    /\ (shutdown_call = "joining") ~> (shutdown_call = "returned")
    /\ [](shutdown_call = "returned" =>
             /\ ActiveDownloads = {}
             /\ executor.shutdown
             /\ cache_meta_file = WriteAtStart(Truncated, json_dumps(cache)))

(***************************************************************************)
(* The claims about the accessors' fetch and merge.                        *)
(***************************************************************************)
\* C26: when the fetch of an accessor call fails, the future fails, so that
\* result() raises and there is no value; the step leaves the store and the
\* snapshot file as they are, and the call takes no further step: its
\* after_download is not applied.  Every change of the store or the file is
\* the step of a call whose fetch returned
C26_FailedFetchChangesNothing ==
    [][/\ \A c \in Calls :
             /\ (call[c].pc # "failed" /\ call'[c].pc = "failed") =>
                   /\ call[c].pc = "queued"
                   /\ call'[c].value = <<>>
                   /\ cache' = cache
                   /\ cache_meta_file' = cache_meta_file
             /\ call[c].pc = "failed" => call'[c] = call[c]
       /\ (cache' # cache \/ cache_meta_file' # cache_meta_file) =>
             \E d \in Calls : call[d].pc \in Resolved /\ call'[d] # call[d]]_vars

\* the fetch of a get_artist call failed: the store and the snapshot file
\* are what they were before the call, while the fetch of another call was
\* made
C26_Witness ==
    \E c, d \in Calls :
       /\ call[c].op = "get_artist"
       /\ call[c].pc = "failed"
       /\ call[d].pc = "queued"
       /\ cache = LoadedCache(NoFile, EmptyDict)
       /\ cache_meta_file = NoFile

\* every song of every album of album_details is in song_details, under
\* its id
AlbumsHaveSongs(c) ==
    \A k \in DOMAIN c["album_details"] :
       LET songs == c["album_details"][k].song
       IN \A n \in DOMAIN songs :
             /\ IntKey(songs[n].id) \in DOMAIN c["song_details"]
             /\ c["song_details"][IntKey(songs[n].id)] = songs[n]

\* C27: the merge of get_album puts the album in album_details and its
\* songs in song_details in one critical section of cache_lock: the lock is
\* held from before the album is put until the songs are, no save
\* serializes and no other merge runs in between, and when the section is
\* left album_details maps the id to the fetched album and song_details
\* holds all of its songs
C27_AlbumAndSongsInOneSection ==
    /\ [](\A c \in Calls :
            /\ call[c].pc \in {"merge", "merge_songs"} => cache_lock = c
            /\ call[c].pc = "merge_songs" =>
                  \A d \in Calls \ {c} :
                     call[d].pc \notin {"merge", "merge_songs", "save_dump"})
    /\ [][\A c \in Calls :
            (call[c].pc = "merge_songs" /\ call'[c].pc # "merge_songs") =>
               /\ IntKey(call[c].id) \in DOMAIN cache'["album_details"]
               /\ cache'["album_details"][IntKey(call[c].id)] = call[c].value[1]
               /\ AlbumsHaveSongs(cache')
               /\ cache_lock' = 0]_vars

(***************************************************************************)
(* The claim about the order of the callbacks of a search.                 *)
(***************************************************************************)
\* C28: a search with a query that is not empty calls search_callback at
\* most once with final = False and only before the call with final = True;
\* search3 is called only after the local callback has returned, and no
\* callback follows the final one
C28_LocalThenRemoteThenFinal ==
    /\ [](search.pc \notin {"idle", "immediate"} =>
             search.callbacks \in {<<>>, <<FALSE>>, <<FALSE, TRUE>>})
    /\ [](search.pc = "search3" => search.callbacks = <<FALSE>>)
    /\ [][server_calls' # server_calls =>
             (search.callbacks = <<FALSE>> /\ search'.callbacks = <<FALSE>>)]_vars
    /\ [][FinalCallbacks > 0 => search'.callbacks = search.callbacks]_vars

\* search3 is being called, after the one local callback and before the
\* final one
C28_Witness ==
    /\ search.pc = "search3"
    /\ search.callbacks = <<FALSE>>
    /\ server_calls = 1

(***************************************************************************)
(* The claim about get_artist_artwork.                                     *)
(***************************************************************************)
\* the Result that get_artist_artwork returned is resolved
ArtworkResolved(k) ==
    IF artwork[k].outer # "none"
    THEN artwork[k].outer \in {"done", "failed"}
    ELSE artwork[k].download = "done"

\* C29: the Result of every get_artist_artwork call resolves in the end,
\* for any number of calls beside each other, as many as the executor has
\* threads and more
C29_ArtworkResolves ==
    \A k \in ArtworkCalls :
       (artwork[k] # IdleArtwork) ~> ArtworkResolved(k)

====
